---- MODULE Spec2Model ----
(***************************************************************************)
(* The HTTP server of app/main.py: the accept loop, one handling unit per  *)
(* connection (handle_client), request parsing (HTTPRequest.from_raw), the *)
(* route table (find_handler), the handlers, the gzip negotiation          *)
(* (handle_request) and the serialisation (HTTPResponse.__bytes__).        *)
(*                                                                         *)
(* A Python str or bytes value is a sequence of lexemes (TLA+ strings).    *)
(* The lexemes that the code looks for are always lexemes of their own:    *)
(* "\r", "\n", " ", ":", ",", "/" and the words of the route patterns,     *)
(* header names and "gzip".  Payload text (bodies, echoed tails, header    *)
(* values that are reflected) is made of one-character lexemes, so Len     *)
(* counts its characters.  A bytes value holds one lexeme per ASCII        *)
(* lexeme of the text and two, Lead and Trail, for the one character       *)
(* outside ASCII that the model knows, EAcute (UTF-8: 0xC3 0xA9).          *)
(***************************************************************************)
EXTENDS Naturals, Sequences, FiniteSets, TLC

CR == "\r"
LF == "\n"
SP == " "
CRLF == <<CR, LF>>

(***************************************************************************)
(* Sequences as Python strings.                                            *)
(***************************************************************************)
Drop(s, n) == IF n >= Len(s) THEN <<>> ELSE SubSeq(s, n + 1, Len(s))

Take(s, n) == IF n >= Len(s) THEN s ELSE SubSeq(s, 1, n)

StartsWith(s, p) == Len(p) <= Len(s) /\ SubSeq(s, 1, Len(p)) = p

\* str.find: the first index at which sub occurs in s, 0 when it does not
Find(s, sub) ==
    LET hits == {i \in 1..(Len(s) + 1) :
                   /\ i + Len(sub) - 1 <= Len(s)
                   /\ \A j \in 1..Len(sub) : s[i + j - 1] = sub[j]}
    IN IF hits = {} THEN 0 ELSE CHOOSE i \in hits : \A j \in hits : i <= j

\* the `in` operator on str and bytes
Contains(s, sub) == Find(s, sub) # 0

\* str.split(sep): every piece between occurrences of sep
RECURSIVE Split(_, _)
Split(s, sep) ==
    LET i == Find(s, sep)
    IN IF i = 0 THEN <<s>>
       ELSE <<SubSeq(s, 1, i - 1)>> \o Split(Drop(s, i + Len(sep) - 1), sep)

\* str.split(sep, 1): at most one cut, at the first occurrence of sep
Split1(s, sep) ==
    LET i == Find(s, sep)
    IN IF i = 0 THEN <<s>> ELSE <<SubSeq(s, 1, i - 1), Drop(s, i + Len(sep) - 1)>>

Whitespace == {SP, CR, LF, "\t"}

RECURSIVE LStrip(_)
LStrip(s) == IF s # <<>> /\ Head(s) \in Whitespace THEN LStrip(Tail(s)) ELSE s

RECURSIVE RStrip(_)
RStrip(s) ==
    IF s # <<>> /\ s[Len(s)] \in Whitespace THEN RStrip(SubSeq(s, 1, Len(s) - 1)) ELSE s

\* str.strip()
Strip(s) == RStrip(LStrip(s))

(***************************************************************************)
(* str.encode() and bytes.decode(), both UTF-8.                            *)
(***************************************************************************)
EAcute == "U+00E9"
Lead == "0xC3"
Trail == "0xA9"

RECURSIVE str_encode(_)
str_encode(s) ==
    IF s = <<>> THEN <<>>
    ELSE (IF Head(s) = EAcute THEN <<Lead, Trail>> ELSE <<Head(s)>>) \o str_encode(Tail(s))

\* decode() raises UnicodeDecodeError on a lead byte without its trail byte and on
\* a trail byte without its lead byte
RECURSIVE Decodable(_)
Decodable(b) ==
    IF b = <<>> THEN TRUE
    ELSE IF Head(b) = Lead THEN Len(b) >= 2 /\ b[2] = Trail /\ Decodable(Drop(b, 2))
    ELSE Head(b) # Trail /\ Decodable(Tail(b))

RECURSIVE bytes_decode(_)
bytes_decode(b) ==
    IF b = <<>> THEN <<>>
    ELSE IF Head(b) = Lead THEN <<EAcute>> \o bytes_decode(Drop(b, 2))
    ELSE <<Head(b)>> \o bytes_decode(Tail(b))

(***************************************************************************)
(* int() and str() on decimal numerals, one digit per lexeme.              *)
(***************************************************************************)
Digits == <<"0", "1", "2", "3", "4", "5", "6", "7", "8", "9">>

DigitVal(d) == (CHOOSE i \in 1..Len(Digits) : Digits[i] = d) - 1

IsNumeral(s) == s # <<>> /\ \A i \in 1..Len(s) : \E k \in 1..Len(Digits) : Digits[k] = s[i]

RECURSIVE IntOf(_)
IntOf(s) ==
    IF Len(s) = 1 THEN DigitVal(s[1])
    ELSE IntOf(SubSeq(s, 1, Len(s) - 1)) * Len(Digits) + DigitVal(s[Len(s)])

RECURSIVE StrOf(_)
StrOf(n) ==
    IF n < Len(Digits) THEN <<Digits[n + 1]>>
    ELSE StrOf(n \div Len(Digits)) \o <<Digits[(n % Len(Digits)) + 1]>>

(***************************************************************************)
(* A dict[str, str] in insertion order: a sequence of <<name, value>>.     *)
(***************************************************************************)
HasKey(h, k) == \E i \in 1..Len(h) : h[i][1] = k

\* dict.get(k, default)
Get(h, k, default) ==
    IF HasKey(h, k) THEN h[CHOOSE i \in 1..Len(h) : h[i][1] = k][2] ELSE default

\* h[k] = v: an existing key keeps its place, a new key goes last
Put(h, k, v) ==
    IF HasKey(h, k)
    THEN [i \in 1..Len(h) |-> IF h[i][1] = k THEN <<k, v>> ELSE h[i]]
    ELSE Append(h, <<k, v>>)

(***************************************************************************)
(* HTTPRequest.from_raw.  ok is FALSE where the code raises ValueError     *)
(* (a request line that is not three fields, a header line without ":").   *)
(***************************************************************************)
NoHeaders == <<>>

BadRequest ==
    [ok |-> FALSE, method |-> <<>>, path |-> <<>>, version |-> <<>>,
     headers |-> NoHeaders, body |-> <<>>]

\* the loop over header_lines: stops at an empty line, fails on a line without ":"
RECURSIVE ParseHeaderLines(_, _)
ParseHeaderLines(lines, headers) ==
    IF lines = <<>> \/ Head(lines) = <<>> THEN [ok |-> TRUE, headers |-> headers]
    ELSE LET kv == Split1(Head(lines), <<":">>)
         IN IF Len(kv) # 2 THEN [ok |-> FALSE, headers |-> headers]
            ELSE ParseHeaderLines(Tail(lines), Put(headers, Strip(kv[1]), Strip(kv[2])))

from_raw(raw_request) ==
    LET parts == Split1(raw_request, CRLF \o CRLF)
        lines == Split(parts[1], CRLF)
        fields == Split(Head(lines), <<SP>>)
        parsed == ParseHeaderLines(Tail(lines), NoHeaders)
    IN IF Len(parts) # 2 \/ Len(fields) # 3 \/ ~parsed.ok THEN BadRequest
       ELSE [ok |-> TRUE, method |-> fields[1], path |-> fields[2], version |-> fields[3],
             headers |-> parsed.headers, body |-> parts[2]]

(***************************************************************************)
(* The route table and find_handler.  A pattern is its literal prefix and  *)
(* what follows it: dotstar for ".*", dollar for "$".  re.match anchors    *)
(* every pattern at the first character of the path, "." matches anything  *)
(* but "\n", and "$" matches at the end or before a final "\n".            *)
(***************************************************************************)
GET == <<"GET">>
POST == <<"POST">>

Pattern(literal, dotstar, dollar) == [literal |-> literal, dotstar |-> dotstar, dollar |-> dollar]

Route(method, pattern, handler) == [method |-> method, pattern |-> pattern, handler |-> handler]

routes ==
    << Route(GET, Pattern(<<"/">>, FALSE, TRUE), "home"),
       Route(GET, Pattern(<<"/", "echo", "/">>, TRUE, TRUE), "echo"),
       Route(GET, Pattern(<<"/", "user-agent">>, FALSE, FALSE), "user_agent"),
       Route(GET, Pattern(<<"/", "files", "/">>, TRUE, FALSE), "read_file"),
       Route(POST, Pattern(<<"/", "files", "/">>, TRUE, FALSE), "post_file") >>

NoLF(s) == \A i \in 1..Len(s) : s[i] # LF

\* the rest of the path after the literal, against what follows the literal in the pattern
RestMatches(pattern, rest) ==
    IF ~pattern.dollar THEN TRUE
    ELSE LET inner == IF rest # <<>> /\ rest[Len(rest)] = LF
                      THEN SubSeq(rest, 1, Len(rest) - 1) ELSE rest
         IN IF pattern.dotstar THEN NoLF(inner) ELSE inner = <<>>

\* pattern.match(path)
Match(pattern, path) ==
    /\ StartsWith(path, pattern.literal)
    /\ RestMatches(pattern, Drop(path, Len(pattern.literal)))

None == "None"

RECURSIVE ScanRoutes(_, _, _)
ScanRoutes(table, method, path) ==
    IF table = <<>> THEN None
    ELSE IF method = Head(table).method /\ Match(Head(table).pattern, path)
         THEN Head(table).handler
         ELSE ScanRoutes(Tail(table), method, path)

\* find_handler without the test of the method on line 167
find_handler_AnyMethod(method, path) ==
    IF \E i \in 1..Len(routes) : Match(routes[i].pattern, path)
    THEN routes[CHOOSE i \in 1..Len(routes) :
                  /\ Match(routes[i].pattern, path)
                  /\ \A j \in 1..(i - 1) : ~Match(routes[j].pattern, path)].handler
    ELSE None

find_handler(method, path) == ScanRoutes(routes, method, path)

\* re.sub(r"^/echo/", "", path) and re.sub(r"^/files/", "", path)
SubPrefix(literal, path) == IF StartsWith(path, literal) THEN Drop(path, Len(literal)) ELSE path

(***************************************************************************)
(* HTTPResponse, the handlers without file access, handle_request's        *)
(* negotiation and __bytes__.                                              *)
(***************************************************************************)
HTTP11 == <<"HTTP/1.1">>

STASTUS == [s \in {200, 201, 404} |->
              IF s = 200 THEN <<"OK">> ELSE IF s = 201 THEN <<"Created">>
              ELSE <<"Not", SP, "Found">>]

HTTPResponse(status, headers, body) ==
    [version |-> HTTP11, status |-> status, headers |-> headers, body |-> body]

NoResponse == HTTPResponse(0, NoHeaders, <<>>)

ok(headers, body) == HTTPResponse(200, headers, body)

\* not_found built with the status of ok
not_found_AsOk == HTTPResponse(200, NoHeaders, <<>>)

not_found == HTTPResponse(404, NoHeaders, <<>>)

\* created built with a status that STASTUS does not know
created_NoContent == HTTPResponse(204, NoHeaders, <<>>)

created == HTTPResponse(201, NoHeaders, <<>>)

ContentType == <<"Content-Type">>
ContentLength == <<"Content-Length">>
ContentEncoding == <<"Content-Encoding">>
AcceptEncoding == <<"Accept-Encoding">>
Connection == <<"Connection">>
UserAgent == <<"User-Agent">>
TextPlain == <<"text", "/", "plain">>
OctetStream == <<"application", "/", "octet-stream">>
Close == <<"close">>
Gzip == <<"gzip">>

ENCODER == <<Gzip>>

home(request) == ok(NoHeaders, <<>>)

echo(request) ==
    LET message == SubPrefix(<<"/", "echo", "/">>, request.path)
    IN ok(<<<<ContentType, TextPlain>>, <<ContentLength, StrOf(Len(message))>>>>, message)

user_agent(request) ==
    LET agent == Get(request.headers, UserAgent, <<>>)
    IN ok(<<<<ContentType, TextPlain>>, <<ContentLength, StrOf(Len(agent))>>>>, agent)

\* `enc in encoding`: a substring test on the header value
Accepts(encoding, enc) == Contains(encoding, enc)

\* the loop over ENCODER at the end of handle_request
RECURSIVE Negotiate(_, _, _)
Negotiate(encoders, encoding, response) ==
    IF encoders = <<>> THEN response
    ELSE IF Accepts(encoding, Head(encoders))
         THEN [response EXCEPT !.headers = Put(@, ContentEncoding, Head(encoders))]
         ELSE Negotiate(Tail(encoders), encoding, response)

Encode(request, response) ==
    Negotiate(ENCODER, Get(request.headers, AcceptEncoding, <<>>), response)

(***************************************************************************)
(* gzip.compress: the member header, the deflated data and the trailer     *)
(* (CRC-32 and size).  The deflated data are kept as the text they decode  *)
(* to; the output is never the input and differs from it in length.        *)
(***************************************************************************)
GzipMagic == <<"1f8b">>
GzipTrailer == <<"crc32", "isize">>

compress(data) == GzipMagic \o data \o GzipTrailer

\* __bytes__ without line 126: the body is compressed, Content-Length is the handler's
Serialized_StaleLength(response) ==
    IF Get(response.headers, ContentEncoding, <<>>) # <<>>
    THEN [response EXCEPT !.body = compress(str_encode(response.body))]
    ELSE [response EXCEPT !.body = str_encode(response.body)]

\* __bytes__ keeping the compressed body in self.body and evaluated a second time
Serialized_Twice(response) ==
    IF Get(response.headers, ContentEncoding, <<>>) # <<>>
    THEN [response EXCEPT !.headers = Put(@, ContentLength,
                                          StrOf(Len(compress(compress(str_encode(response.body)))))),
                          !.body = compress(compress(str_encode(response.body)))]
    ELSE [response EXCEPT !.body = str_encode(response.body)]

\* the response as __bytes__ leaves it: the body as bytes, Content-Length recomputed
\* when encoded
Serialized(response) ==
    IF Get(response.headers, ContentEncoding, <<>>) # <<>>
    THEN [response EXCEPT !.headers = Put(@, ContentLength,
                                          StrOf(Len(compress(str_encode(response.body))))),
                          !.body = compress(str_encode(response.body))]
    ELSE [response EXCEPT !.body = str_encode(response.body)]

RECURSIVE HeaderLines(_)
HeaderLines(h) ==
    IF h = <<>> THEN <<>>
    ELSE Head(h)[1] \o <<":", SP>> \o Head(h)[2] \o CRLF \o HeaderLines(Tail(h))

\* HTTPResponse.__bytes__
Bytes(response) ==
    LET r == Serialized(response)
    IN str_encode(r.version \o <<SP>> \o StrOf(r.status) \o <<SP>> \o STASTUS[r.status] \o CRLF
                  \o HeaderLines(r.headers) \o CRLF)
       \o r.body

(***************************************************************************)
(* Files under target_dir: a function from the name after "/files/" to the *)
(* bytes on disk.  The directory holds plain files only, so open() fails   *)
(* on the empty name (the directory itself) and on a name with a "/".      *)
(* Both handlers open in text mode on a POSIX system.                      *)
(***************************************************************************)
FilesPrefix == <<"/", "files", "/">>

CanOpen(name) == name # <<>> /\ \A i \in 1..Len(name) : name[i] # "/"

\* full_path.exists()
Exists(fs, name) == name = <<>> \/ name \in DOMAIN fs

LineSep == <<LF>>

\* what f.write(content) puts on disk in mode "w": "\n" becomes os.linesep
RECURSIVE WriteText(_)
WriteText(s) ==
    IF s = <<>> THEN <<>>
    ELSE (IF Head(s) = LF THEN LineSep ELSE <<Head(s)>>) \o WriteText(Tail(s))

\* what f.read() returns in mode "r": "\r\n" and "\r" become "\n"
RECURSIVE ReadText(_)
ReadText(s) ==
    IF s = <<>> THEN <<>>
    ELSE IF StartsWith(s, CRLF) THEN <<LF>> \o ReadText(Drop(s, Len(CRLF)))
    ELSE IF Head(s) = CR THEN <<LF>> \o ReadText(Tail(s))
    ELSE <<Head(s)>> \o ReadText(Tail(s))

\* the write of a descriptor opened with "w": at offset 0, over what is there by then
WriteAt0(old, data) == data \o Drop(old, Len(data))

read_file_response(size, content) ==
    ok(<<<<ContentType, OctetStream>>, <<ContentLength, StrOf(size)>>>>, content)

(***************************************************************************)
(* handle_client's tests.                                                  *)
(***************************************************************************)
Delimiter == CRLF \o CRLF

\* int(request.headers.get("Content-Length", 0))
DeclaredLength(request) == IntOf(Get(request.headers, ContentLength, <<"0">>))

\* int() raises ValueError
BadLength(request) == ~IsNumeral(Get(request.headers, ContentLength, <<"0">>))

\* the test of line 181 with <= for <
BodyIncomplete_OrEqual(request) == Len(request.body) <= DeclaredLength(request)

\* handle_client without the loop of lines 181-182
BodyIncomplete_Never(request) == FALSE

\* len(request.body) < int(...)
BodyIncomplete(request) == Len(request.body) < DeclaredLength(request)

\* the test of line 185 made without regard to case
WantsClose_AnyCase(request) ==
    Get(request.headers, Connection, <<>>) \in {<<"close">>, <<"Close">>}

\* request.headers.get("Connection") == "close"
WantsClose(request) == Get(request.headers, Connection, <<>>) = Close

\* handle_client without line 187: the response is sent as the handler left it
WithClose_Omitted(response) == response

\* response.headers["Connection"] = "close"
WithClose(response) == [response EXCEPT !.headers = Put(@, Connection, Close)]

(***************************************************************************)
(* The clients: what they put on the wire.                                 *)
(***************************************************************************)
Req(method, path, headers, body) ==
    [method |-> method, path |-> path, headers |-> headers, body |-> body]

\* the bytes of a request as a client writes them
Wire(r) ==
    str_encode(r.method \o <<SP>> \o r.path \o <<SP>> \o HTTP11 \o CRLF
               \o HeaderLines(r.headers) \o CRLF \o r.body)

NumConns == 2
MaxClientSteps == 2
RecvSize == 1024

Conns == 1..NumConns

Min(a, b) == IF a <= b THEN a ELSE b

RootPath == <<"/">>
EchoPath == <<"/", "echo", "/", "a">>
UnknownPath == <<"/", "unknown">>
FilePath == <<"/", "files", "/", "f">>
FileName == <<"f">>

GetRoot == Req(GET, RootPath, <<>>, <<>>)
PostAB == Req(POST, FilePath, <<<<ContentLength, <<"2">>>>>>, <<"a", "b">>)
PostCR == Req(POST, FilePath, <<<<ContentLength, <<"2">>>>>>, <<"c", CR>>)
GetFile == Req(GET, FilePath, <<>>, <<>>)
PostDir == Req(POST, <<"/", "files", "/">>, <<>>, <<>>)
GetUnknownGzip == Req(GET, UnknownPath, <<<<AcceptEncoding, Gzip>>>>, <<>>)

\* the requests the client of the first connection chooses from
Requests ==
    { GetRoot,
      Req(GET, EchoPath, <<<<Connection, Close>>>>, <<>>),
      Req(GET, UnknownPath, <<>>, <<>>),
      Req(GET, UnknownPath, <<<<Connection, Close>>>>, <<>>),
      Req(GET, RootPath, <<<<Connection, <<"Close">>>>>>, <<>>),
      PostAB, PostCR, GetFile, PostDir, GetUnknownGzip }

\* the requests the clients of the later connections choose from
FileRequests == {PostAB, PostCR, GetFile}

\* the requests a client may give up in the middle of
AbortedRequests == {GetRoot, PostAB}

RequestsOf(c) == IF c = 1 THEN Requests ELSE FileRequests

AbortedOf(c) == IF c = 1 THEN AbortedRequests ELSE {}

\* the target directory when the server starts
InitialFiles == { <<>>, FileName :> <<"x", "y", "z">> }

VARIABLES
    files,      \* the target directory
    pc,         \* per connection: where its handling unit is
    inbuf,      \* per connection: bytes the client has written and recv has not returned yet
    peerClosed, \* per connection: the client has closed its end
    raw,        \* raw_request
    request,    \* request
    handler,    \* the handler find_handler returned
    size,       \* read_file's size
    response,   \* response
    eofReads,   \* parity of the recv calls that returned b"" (history)
    written,    \* per connection: the requests its client has written in full (history)
    handled,    \* per connection: the requests handed to handle_request (history)
    sent,       \* per connection: the responses passed to sendall (history)
    posted,     \* per file name: the POSTs to it so far, and the body of the last one
                \* answered if no POST to it has started since (history)
    budget      \* steps the clients may still take

vars == <<files, pc, inbuf, peerClosed, raw, request, handler, size, response,
          eofReads, written, handled, sent, posted, budget>>

unitVars == <<raw, request, handler, size, response>>

Running(c) == pc[c] \notin {"off", "done", "crashed"}

Init ==
    /\ files \in InitialFiles
    /\ pc = [c \in Conns |-> "off"]
    /\ inbuf = [c \in Conns |-> <<>>]
    /\ peerClosed = [c \in Conns |-> FALSE]
    /\ raw = [c \in Conns |-> <<>>]
    /\ request = [c \in Conns |-> BadRequest]
    /\ handler = [c \in Conns |-> None]
    /\ size = [c \in Conns |-> 0]
    /\ response = [c \in Conns |-> NoResponse]
    /\ eofReads = [c \in Conns |-> 0]
    /\ written = [c \in Conns |-> <<>>]
    /\ handled = [c \in Conns |-> <<>>]
    /\ sent = [c \in Conns |-> <<>>]
    /\ posted = <<>>
    /\ budget = MaxClientSteps

\* the history kept per file name
NeverPosted == [n |-> 0, known |-> FALSE, body |-> <<>>]

PostedOf(p, name) == IF name \in DOMAIN p THEN p[name] ELSE NeverPosted

Started(p) == [n |-> p.n + 1, known |-> FALSE, body |-> <<>>]

Answered(p, body) == [n |-> p.n, known |-> TRUE, body |-> body]

(***************************************************************************)
(* main: accept a connection and start its thread.  Connections are        *)
(* numbered in the order in which accept returns them.                     *)
(***************************************************************************)
\* the listener joining each thread before it accepts again
Accept_Joined(c) ==
    /\ pc[c] = "off"
    /\ \A d \in Conns : d < c => pc[d] \in {"done", "crashed"}
    /\ pc' = [pc EXCEPT ![c] = "headers"]
    /\ UNCHANGED <<files, inbuf, peerClosed, unitVars, eofReads, written, handled, sent, posted, budget>>

Accept(c) ==
    /\ pc[c] = "off"
    /\ \A d \in Conns : d < c => pc[d] # "off"
    /\ pc' = [pc EXCEPT ![c] = "headers"]
    /\ UNCHANGED <<files, inbuf, peerClosed, unitVars, eofReads, written, handled, sent, posted, budget>>

(***************************************************************************)
(* The client of connection c.                                             *)
(***************************************************************************)
ClientSend(c, r) ==
    /\ Running(c) /\ ~peerClosed[c] /\ budget > 0
    /\ inbuf' = [inbuf EXCEPT ![c] = @ \o Wire(r)]
    /\ written' = [written EXCEPT ![c] = Append(@, r)]
    /\ budget' = budget - 1
    /\ UNCHANGED <<files, pc, peerClosed, unitVars, eofReads, handled, sent, posted>>

\* the places at which a client gives up in the middle of a request: after its
\* first byte, at the end of its head less the last byte of the delimiter, and
\* one byte before its end
Cuts(r) == {1, Len(Wire(r)) - Len(str_encode(r.body)) - 1, Len(Wire(r)) - 1}

\* the client writes only the first k bytes of a request and closes
ClientAbort(c, r, k) ==
    /\ Running(c) /\ ~peerClosed[c] /\ budget > 0
    /\ k < Len(Wire(r))
    /\ inbuf' = [inbuf EXCEPT ![c] = @ \o Take(Wire(r), k)]
    /\ peerClosed' = [peerClosed EXCEPT ![c] = TRUE]
    /\ budget' = budget - 1
    /\ UNCHANGED <<files, pc, unitVars, eofReads, written, handled, sent, posted>>

ClientClose(c) ==
    /\ Running(c) /\ ~peerClosed[c] /\ budget > 0
    /\ peerClosed' = [peerClosed EXCEPT ![c] = TRUE]
    /\ budget' = budget - 1
    /\ UNCHANGED <<files, pc, inbuf, unitVars, eofReads, written, handled, sent, posted>>

(***************************************************************************)
(* handle_client, one handling unit per connection.  pc is                 *)
(*   "headers"    in the loop that reads until the delimiter is in         *)
(*                raw_request,                                             *)
(*   "body"       at the test of the loop that reads the body,             *)
(*   "post_write" in post_file, the file opened and truncated,             *)
(*   "read_read"  in read_file, after exists() and getsize(),              *)
(*   "send"       handle_request has returned,                             *)
(*   "done"       returned after Connection: close, the socket closed,     *)
(*   "crashed"    ended by an exception, the socket closed.                *)
(* The client's close is seen as end of file: recv returns b"" at once,    *)
(* and sendall still succeeds.                                             *)
(***************************************************************************)
\* conn.recv(1024) returning n bytes; b"" only at end of file
CanRecv(c, n) ==
    /\ n <= Min(Len(inbuf[c]), RecvSize)
    /\ n = 0 => (inbuf[c] = <<>> /\ peerClosed[c])

Flip(b) == 1 - b

\* an uncaught exception that ends the process: every unit started so far ends
Raised_Process(pcs, c) == [d \in DOMAIN pcs |-> IF pcs[d] = "off" THEN "off" ELSE "crashed"]

\* an exception that handle_client does not catch ends the thread it is raised in
Raised(pcs, c) == [pcs EXCEPT ![c] = "crashed"]

Crash(c) ==
    /\ pc' = Raised(pc, c)
    /\ UNCHANGED <<files, inbuf, peerClosed, unitVars, eofReads, written, handled, sent, posted, budget>>

\* raw_request += conn.recv(1024), then the loop test and, past the loop, decode()
\* and from_raw; BadRequest also where decode() raises
RecvHeaders(c) ==
    /\ pc[c] = "headers"
    /\ \E n \in 0..Min(Len(inbuf[c]), RecvSize) :
         /\ CanRecv(c, n)
         /\ LET data == raw[c] \o Take(inbuf[c], n)
                parsed == IF Decodable(data) THEN from_raw(bytes_decode(data)) ELSE BadRequest
            IN /\ inbuf' = [inbuf EXCEPT ![c] = Drop(@, n)]
               /\ eofReads' = [eofReads EXCEPT ![c] = IF n = 0 THEN Flip(@) ELSE @]
               /\ raw' = [raw EXCEPT ![c] = data]
               /\ IF ~Contains(data, Delimiter)
                  THEN UNCHANGED <<pc, request>>
                  ELSE /\ pc' = IF parsed.ok THEN [pc EXCEPT ![c] = "body"] ELSE Raised(pc, c)
                       /\ request' = [request EXCEPT ![c] = parsed]
    /\ UNCHANGED <<files, peerClosed, handler, size, response, written, handled, sent, posted, budget>>

\* request.body += conn.recv(1024).decode()
RecvBody(c) ==
    /\ pc[c] = "body"
    /\ ~BadLength(request[c])
    /\ BodyIncomplete(request[c])
    /\ \E n \in 0..Min(Len(inbuf[c]), RecvSize) :
         /\ CanRecv(c, n)
         /\ inbuf' = [inbuf EXCEPT ![c] = Drop(@, n)]
         /\ eofReads' = [eofReads EXCEPT ![c] = IF n = 0 THEN Flip(@) ELSE @]
         /\ IF Decodable(Take(inbuf[c], n))
            THEN /\ request' = [request EXCEPT ![c].body = @ \o bytes_decode(Take(inbuf[c], n))]
                 /\ UNCHANGED pc
            ELSE /\ pc' = Raised(pc, c)
                 /\ UNCHANGED request
    /\ UNCHANGED <<files, peerClosed, raw, handler, size, response, written, handled, sent, posted, budget>>

\* handle_request up to the handler's first file access
Dispatch(c) ==
    /\ pc[c] = "body"
    /\ BadLength(request[c]) \/ ~BodyIncomplete(request[c])
    /\ IF BadLength(request[c]) THEN Crash(c)
       ELSE LET h == find_handler(request[c].method, request[c].path)
                name == SubPrefix(FilesPrefix, request[c].path)
                answer(r) == /\ response' = [response EXCEPT ![c] = Encode(request[c], r)]
                             /\ pc' = [pc EXCEPT ![c] = "send"]
                             /\ UNCHANGED <<files, size, posted>>
            IN /\ handler' = [handler EXCEPT ![c] = h]
               /\ handled' = [handled EXCEPT ![c] =
                                Append(@, [request |-> request[c], handler |-> h,
                                           posted |-> PostedOf(posted, name)])]
               /\ UNCHANGED <<inbuf, peerClosed, raw, request, eofReads, written, sent, budget>>
               /\ CASE h = None -> answer(not_found)
                    [] h = "home" -> answer(home(request[c]))
                    [] h = "echo" -> answer(echo(request[c]))
                    [] h = "user_agent" -> answer(user_agent(request[c]))
                    [] h = "post_file" ->
                         \* open(full_path, "w")
                         /\ pc' = IF CanOpen(name) THEN [pc EXCEPT ![c] = "post_write"] ELSE Raised(pc, c)
                         /\ files' = IF CanOpen(name) THEN (name :> <<>>) @@ files ELSE files
                         /\ posted' = IF CanOpen(name)
                                      THEN (name :> Started(PostedOf(posted, name))) @@ posted
                                      ELSE posted
                         /\ UNCHANGED <<size, response>>
                    [] h = "read_file" ->
                         IF ~Exists(files, name) THEN answer(not_found)
                         ELSE \* os.path.getsize, then open(full_path, "r")
                              /\ pc' = IF CanOpen(name) THEN [pc EXCEPT ![c] = "read_read"] ELSE Raised(pc, c)
                              /\ size' = [size EXCEPT ![c] = IF CanOpen(name) THEN Len(files[name]) ELSE @]
                              /\ UNCHANGED <<files, response, posted>>

\* post_file from f.write to its return, and the end of handle_request
PostWrite(c) ==
    /\ pc[c] = "post_write"
    /\ LET name == SubPrefix(FilesPrefix, request[c].path)
       IN files' = [files EXCEPT ![name] = WriteAt0(@, str_encode(WriteText(request[c].body)))]
    /\ response' = [response EXCEPT ![c] = Encode(request[c], created)]
    /\ pc' = [pc EXCEPT ![c] = "send"]
    /\ UNCHANGED <<inbuf, peerClosed, raw, request, handler, size, eofReads, written, handled, sent, posted, budget>>

\* read_file from f.read() to its return, and the end of handle_request
ReadRead(c) ==
    /\ pc[c] = "read_read"
    /\ LET name == SubPrefix(FilesPrefix, request[c].path)
       IN IF Decodable(files[name])
          THEN /\ response' = [response EXCEPT ![c] =
                     Encode(request[c],
                            read_file_response(size[c], ReadText(bytes_decode(files[name]))))]
               /\ pc' = [pc EXCEPT ![c] = "send"]
          ELSE /\ pc' = Raised(pc, c)
               /\ UNCHANGED response
    /\ UNCHANGED <<files, inbuf, peerClosed, raw, request, handler, size, eofReads, written, handled, sent, posted, budget>>

\* what read_file got from the file system: whether the file exists, its size and
\* what f.read() returned (history)
NoRead == [found |-> FALSE, size |-> 0, content |-> <<>>]

FileRead(h, resp, sz) ==
    IF h = "read_file" /\ resp.status = 200
    THEN [found |-> TRUE, size |-> sz, content |-> resp.body]
    ELSE NoRead

\* dict.update: every entry of more put on h
RECURSIVE PutAll(_, _)
PutAll(h, more) ==
    IF more = <<>> THEN h ELSE PutAll(Put(h, Head(more)[1], Head(more)[2]), Tail(more))

\* one headers dict shared by every response (a mutable default): the headers put
\* on a response sent earlier, on any connection, are still on it
Sending_SharedHeaders(resp, seen, read) ==
    LET earlier == {x \in Conns \X (1..(2 * MaxClientSteps)) : x[2] <= Len(sent[x[1]])}
        lines(b) == Split(Split1(b, Delimiter)[1], CRLF)
        old == IF earlier = {} THEN NoHeaders
               ELSE LET x == CHOOSE y \in earlier : TRUE
                    IN ParseHeaderLines(Tail(lines(sent[x[1]][x[2]].bytes)), NoHeaders).headers
    IN [bytes |-> Bytes([resp EXCEPT !.headers = PutAll(old, resp.headers)]),
        body |-> resp.body, posted |-> seen, read |-> read]

\* what sendall is given: the bytes; with them the body the handler returned, the
\* history of the file the request names and what read_file got (history)
Sending(resp, seen, read) ==
    [bytes |-> Bytes(resp), body |-> resp.body, posted |-> seen, read |-> read]

\* the close branch without its return: line 189 sends the response again
Sendalls_FallThrough(close, entry) == IF close THEN <<entry, entry>> ELSE <<entry>>

\* the calls of sendall on the branch taken: line 188 and the return, or line 189
Sendalls(close, entry) == <<entry>>

\* the if at the end of the loop body: the header, sendall, and return or the next turn
Send(c) ==
    /\ pc[c] = "send"
    /\ LET close == WantsClose(request[c])
           resp == IF close THEN WithClose(response[c]) ELSE response[c]
           name == SubPrefix(FilesPrefix, request[c].path)
       IN /\ sent' = [sent EXCEPT ![c] =
                        @ \o Sendalls(close, Sending(resp, PostedOf(posted, name),
                                                     FileRead(handler[c], resp, size[c])))]
          /\ pc' = [pc EXCEPT ![c] = IF close THEN "done" ELSE "headers"]
          /\ posted' = IF handler[c] = "post_file"
                       THEN [posted EXCEPT ![name] = Answered(@, request[c].body)]
                       ELSE posted
    \* the next turn starts with raw_request = b""; the other locals are dead until set again
    /\ raw' = [raw EXCEPT ![c] = <<>>]
    /\ request' = [request EXCEPT ![c] = BadRequest]
    /\ handler' = [handler EXCEPT ![c] = None]
    /\ size' = [size EXCEPT ![c] = 0]
    /\ response' = [response EXCEPT ![c] = NoResponse]
    /\ UNCHANGED <<files, inbuf, peerClosed, eofReads, written, handled, budget>>

Unit(c) == RecvHeaders(c) \/ RecvBody(c) \/ Dispatch(c) \/ PostWrite(c) \/ ReadRead(c) \/ Send(c)

Client(c) ==
    \/ \E r \in RequestsOf(c) : ClientSend(c, r)
    \/ \E r \in AbortedOf(c) : \E k \in Cuts(r) : ClientAbort(c, r, k)
    \/ ClientClose(c)

Next == \E c \in Conns : Accept(c) \/ Client(c) \/ Unit(c)

Spec == Init /\ [][Next]_vars

(***************************************************************************)
(* DispatchSpec: one connection on which the client has written one        *)
(* request, drawn from every method, path and header combination below.    *)
(* Its steps are those of the handling unit.                               *)
(***************************************************************************)
Methods == {GET, POST}

Paths ==
    { RootPath, EchoPath, UnknownPath, FilePath,
      <<"/", "echo", "/">>,
      <<"/", "echo">>,
      <<"/", "user-agent">>,
      <<"/", "user-agent", "/", "a">>,
      <<"/", "x", "/", "user-agent">>,
      <<"/", "files", "/", "g">>,
      <<"/", "files", "/">>,
      <<"/", "echo", "/", EAcute>> }

\* values of Accept-Encoding; <<>> stands for no such header
Encodings ==
    { <<>>,
      Gzip,
      <<"gzip", "x">>,
      <<"x-", "gzip", ",", SP, "br">>,
      <<"br", ",", SP, "gzip">>,
      <<"br">> }

\* values of Connection; <<>> stands for no such header
ConnectionValues == { <<>>, Close }

AgentValue == <<"c", "u", "r", "l">>

OptionalHeader(name, value) == IF value = <<>> THEN <<>> ELSE <<<<name, value>>>>

WideRequest(method, path, encoding, connection) ==
    Req(method, path,
        (IF method = POST THEN <<<<ContentLength, <<"2">>>>>> ELSE <<<<UserAgent, AgentValue>>>>)
        \o OptionalHeader(AcceptEncoding, encoding)
        \o OptionalHeader(Connection, connection),
        IF method = POST THEN <<"a", "b">> ELSE <<>>)

WideRequests ==
    { WideRequest(m, p, e, k) : m \in Methods, p \in Paths, e \in Encodings, k \in ConnectionValues }

DispatchInit ==
    /\ files \in InitialFiles
    /\ pc = [c \in Conns |-> IF c = 1 THEN "headers" ELSE "off"]
    /\ \E r \in WideRequests :
         /\ inbuf = [c \in Conns |-> IF c = 1 THEN Wire(r) ELSE <<>>]
         /\ written = [c \in Conns |-> IF c = 1 THEN <<r>> ELSE <<>>]
    /\ peerClosed = [c \in Conns |-> FALSE]
    /\ raw = [c \in Conns |-> <<>>]
    /\ request = [c \in Conns |-> BadRequest]
    /\ handler = [c \in Conns |-> None]
    /\ size = [c \in Conns |-> 0]
    /\ response = [c \in Conns |-> NoResponse]
    /\ eofReads = [c \in Conns |-> 0]
    /\ handled = [c \in Conns |-> <<>>]
    /\ sent = [c \in Conns |-> <<>>]
    /\ posted = <<>>
    /\ budget = 0

DispatchNext == \E c \in Conns : Unit(c)

DispatchSpec == DispatchInit /\ [][DispatchNext]_vars

(***************************************************************************)
(* RaceSpec: every connection is accepted and its client has written one   *)
(* request on a file.  Its steps are those of the handling units, in any   *)
(* interleaving.                                                           *)
(***************************************************************************)
PostD == Req(POST, FilePath, <<<<ContentLength, <<"1">>>>>>, <<"d">>)

RaceRequests == {PostAB, PostD, GetFile}

RaceInit ==
    /\ files \in InitialFiles
    /\ pc = [c \in Conns |-> "headers"]
    /\ written \in [Conns -> {<<r>> : r \in RaceRequests}]
    /\ inbuf = [c \in Conns |-> Wire(written[c][1])]
    /\ peerClosed = [c \in Conns |-> FALSE]
    /\ raw = [c \in Conns |-> <<>>]
    /\ request = [c \in Conns |-> BadRequest]
    /\ handler = [c \in Conns |-> None]
    /\ size = [c \in Conns |-> 0]
    /\ response = [c \in Conns |-> NoResponse]
    /\ eofReads = [c \in Conns |-> 0]
    /\ handled = [c \in Conns |-> <<>>]
    /\ sent = [c \in Conns |-> <<>>]
    /\ posted = <<>>
    /\ budget = 0

RaceNext == \E c \in Conns : Unit(c)

RaceSpec == RaceInit /\ [][RaceNext]_vars

(***************************************************************************)
(* SequenceSpec: the listener and the units of Spec, with clients that     *)
(* write whole requests, one after the other, drawn from a few requests    *)
(* that differ in what they negotiate.                                     *)
(***************************************************************************)
SequenceRequests ==
    { GetUnknownGzip,
      Req(GET, UnknownPath, <<>>, <<>>),
      Req(GET, UnknownPath, <<<<Connection, Close>>>>, <<>>),
      GetFile, PostAB }

SequenceNext ==
    \E c \in Conns :
        \/ Accept(c)
        \/ \E r \in SequenceRequests : ClientSend(c, r)
        \/ Unit(c)

SequenceSpec == Init /\ [][SequenceNext]_vars

(***************************************************************************)
(* What the claims speak of.                                               *)
(***************************************************************************)
Last(s) == s[Len(s)]

\* a response as a client reads it off the wire
OnWire(bytes) ==
    LET parts == Split1(bytes, Delimiter)
        lines == Split(parts[1], CRLF)
        fields == Split(Head(lines), <<SP>>)
    IN [status |-> fields[2],
        headers |-> ParseHeaderLines(Tail(lines), NoHeaders).headers,
        body |-> parts[2]]

\* the request carries Connection with the value close, letter for letter
AskedClose(r) == HasKey(r.headers, Connection) /\ Get(r.headers, Connection, <<>>) = <<"close">>

\* the step of connection c's unit consumes bytes of the socket, or finds its end
Reads(c) == Len(inbuf'[c]) < Len(inbuf[c]) \/ eofReads'[c] # eofReads[c]

\* connection c's unit sends a response in this step
Sends(c) == Len(sent'[c]) = Len(sent[c]) + 1

\* C1: a request with Connection: close is answered with Connection: close, and it
\* is the last thing the unit does: the unit has returned, nothing was read or
\* handled after it, and no response follows it
C1_CloseEndsUnit ==
    \A c \in Conns : \A k \in 1..Len(sent[c]) :
        AskedClose(handled[c][k].request) =>
            /\ Get(OnWire(sent[c][k].bytes).headers, Connection, <<>>) = Close
            /\ k = Len(sent[c]) /\ k = Len(handled[c])
            /\ pc[c] = "done" /\ raw[c] = <<>>

\* a 404 for an unmatched route was sent with Connection: close, the unit has
\* returned, and bytes the client wrote after that request are still unread
C1_Witness ==
    \E c \in Conns :
        /\ pc[c] = "done" /\ inbuf[c] # <<>> /\ Len(sent[c]) = 1
        /\ handled[c][1].handler = None
        /\ OnWire(sent[c][1].bytes).status = <<"4", "0", "4">>

\* C2: a request without Connection: close is answered without that header, and the
\* step that sends the answer leaves the unit awaiting headers with an empty buffer
C2_KeepAlive ==
    [][\A c \in Conns :
         (Sends(c) /\ ~AskedClose(request[c])) =>
             /\ Get(OnWire(Last(sent'[c]).bytes).headers, Connection, <<>>) # Close
             /\ pc'[c] = "headers" /\ raw'[c] = <<>>
             /\ inbuf'[c] = inbuf[c]]_vars

\* two responses on one connection, the first to a request with Connection: Close
C2_Witness ==
    \E c \in Conns :
        /\ Len(sent[c]) = 2
        /\ Get(handled[c][1].request.headers, Connection, <<>>) = <<"Close">>

\* C3: when the peer has closed and the delimiter has not arrived, the recv that
\* returns no data ends the unit (the buffer can never change again, so a unit
\* that goes on reading never terminates), and no response is sent
C3_TerminatesAtEOF ==
    [][\A c \in Conns :
         (pc[c] = "headers" /\ eofReads'[c] # eofReads[c]) =>
             (pc'[c] \in {"done", "crashed"} /\ sent'[c] = sent[c])]_vars

\* C4: the body of every request handed to handle_request has the length its
\* Content-Length declares, and length zero without that header
C4_BodyLengthExact ==
    \A c \in Conns : \A k \in 1..Len(handled[c]) :
        LET r == handled[c][k].request
        IN Len(r.body) = IF HasKey(r.headers, ContentLength)
                         THEN IntOf(Get(r.headers, ContentLength, <<>>)) ELSE 0

\* C5: from the delimiter to the response, a request without Content-Length
\* causes no read of the socket
C5_NoReadWithoutLength ==
    [][\A c \in Conns :
         (pc[c] \in {"body", "post_write", "read_read", "send"}
            /\ ~HasKey(request[c].headers, ContentLength)) => ~Reads(c)]_vars

\* a request without Content-Length is about to be answered while bytes wait unread
C5_Witness ==
    \E c \in Conns :
        /\ pc[c] = "send" /\ inbuf[c] # <<>>
        /\ ~HasKey(request[c].headers, ContentLength)

\* C6: a response is gzip-encoded exactly when a comma-separated, trimmed token of
\* the request's Accept-Encoding is gzip; otherwise it carries no Content-Encoding
\* and the body the handler returned
GzipToken(r) ==
    \E i \in 1..Len(Split(Get(r.headers, AcceptEncoding, <<>>), <<",">>)) :
        Strip(Split(Get(r.headers, AcceptEncoding, <<>>), <<",">>)[i]) = <<"gzip">>

C6_GzipIffToken ==
    \A c \in Conns : \A k \in 1..Len(sent[c]) :
        LET w == OnWire(sent[c][k].bytes)
        IN IF GzipToken(handled[c][k].request)
           THEN Get(w.headers, ContentEncoding, <<>>) = <<"gzip">>
           ELSE ~HasKey(w.headers, ContentEncoding) /\ w.body = str_encode(sent[c][k].body)

\* C7: a response to a request whose Accept-Encoding names gzip carries
\* Content-Encoding: gzip, the compressed body of the handler, and its length
C7_GzipLength ==
    \A c \in Conns : \A k \in 1..Len(sent[c]) :
        LET w == OnWire(sent[c][k].bytes)
        IN Contains(Get(handled[c][k].request.headers, AcceptEncoding, <<>>), <<"gzip">>) =>
             /\ Get(w.headers, ContentEncoding, <<>>) = <<"gzip">>
             /\ w.body = compress(str_encode(sent[c][k].body))
             /\ w.body # str_encode(sent[c][k].body)
             /\ HasKey(w.headers, ContentLength)
             /\ IntOf(Get(w.headers, ContentLength, <<>>)) = Len(w.body)

\* a response with this status and this handler's body has been sent gzip-encoded
GzipSent(status, body) ==
    \E c \in Conns : \E k \in 1..Len(sent[c]) :
        /\ OnWire(sent[c][k].bytes).status = status
        /\ Get(OnWire(sent[c][k].bytes).headers, ContentEncoding, <<>>) = <<"gzip">>
        /\ sent[c][k].body = body

\* a 404, whose handler set no Content-Length, has been sent gzip-encoded
C7_Witness == GzipSent(<<"4", "0", "4">>, <<>>)

\* C8: find_handler returns the handler of the first binding whose method is the
\* request's and whose pattern matches at the start of the path, None when there
\* is no such binding (as for POST /echo/a, GET /x/user-agent, GET /unknown), and
\* then the response is a 404
Bindings(method, path) ==
    {i \in 1..Len(routes) : routes[i].method = method /\ Match(routes[i].pattern, path)}

FirstBinding(method, path) ==
    IF Bindings(method, path) = {} THEN "None"
    ELSE routes[CHOOSE i \in Bindings(method, path) :
                  \A j \in Bindings(method, path) : i <= j].handler

Unrouted ==
    { <<POST, EchoPath>>, <<GET, <<"/", "x", "/", "user-agent">>>>, <<GET, UnknownPath>> }

C8_FirstBinding ==
    \A c \in Conns : \A k \in 1..Len(handled[c]) :
        LET r == handled[c][k].request
            h == handled[c][k].handler
        IN /\ h = FirstBinding(r.method, r.path)
           /\ <<r.method, r.path>> \in Unrouted => h = "None"
           /\ (h = "None" /\ k <= Len(sent[c])) =>
                  OnWire(sent[c][k].bytes).status = <<"4", "0", "4">>

\* GET /x/user-agent, which no binding matches, has been answered
C8_Witness ==
    \E c \in Conns :
        /\ Len(sent[c]) = 1
        /\ handled[c][1].request.method = GET
        /\ handled[c][1].request.path = <<"/", "x", "/", "user-agent">>

\* C9: a request that no binding matches is answered, with a 404, and unless it
\* asked for close the step that sends the 404 leaves the unit awaiting the next
\* request
C9_NotFoundIsNotFatal ==
    [][\A c \in Conns :
         LET unmatched == Bindings(request[c].method, request[c].path) = {}
         IN /\ (Len(handled'[c]) = Len(handled[c]) + 1 /\ unmatched) => pc'[c] = "send"
            /\ (Sends(c) /\ unmatched) =>
                 /\ OnWire(Last(sent'[c]).bytes).status = <<"4", "0", "4">>
                 /\ ~AskedClose(request[c]) => pc'[c] = "headers"]_vars

\* after a 404 for an unmatched route, the same unit has answered a second request
C9_Witness ==
    \E c \in Conns :
        /\ Len(sent[c]) = 2
        /\ handled[c][1].handler = None
        /\ OnWire(sent[c][1].bytes).status = <<"4", "0", "4">>

\* C10: a GET /files/f that starts after a POST /files/f was answered 201, with no
\* POST to f started from then until the GET is answered, is answered 200 with the
\* body of that POST and Content-Type: application/octet-stream
C10_RoundTrip ==
    \A c \in Conns : \A k \in 1..Len(sent[c]) :
        LET h == handled[c][k]
            w == OnWire(sent[c][k].bytes)
        IN (/\ h.request.method = GET
            /\ StartsWith(h.request.path, <<"/", "files", "/">>)
            /\ h.posted.known
            /\ sent[c][k].posted = h.posted) =>
               /\ w.status = <<"2", "0", "0">>
               /\ w.body = str_encode(h.posted.body)
               /\ Get(w.headers, ContentType, <<>>) = <<"application", "/", "octet-stream">>

\* C11: a GET under /files/ is answered 404 exactly when the target directory holds
\* no file of that name when read_file looks; the GET creates no file, and the 404
\* leaves the unit awaiting the next request unless the request asked for close
FileNamed(r) == SubPrefix(<<"/", "files", "/">>, r.path)

IsFileGet(r) == r.method = GET /\ StartsWith(r.path, <<"/", "files", "/">>)

C11_NotFoundIffAbsent ==
    [][\A c \in Conns :
         /\ (Len(handled'[c]) = Len(handled[c]) + 1 /\ IsFileGet(request[c])) =>
               /\ files' = files
               /\ (FileNamed(request[c]) \notin DOMAIN files)
                    <=> (pc'[c] = "send" /\ response'[c].status = 404)
         /\ (Sends(c) /\ IsFileGet(request[c]) /\ response[c].status = 404) =>
               /\ OnWire(Last(sent'[c]).bytes).status = <<"4", "0", "4">>
               /\ files' = files
               /\ ~AskedClose(request[c]) => pc'[c] = "headers"]_vars

\* C12: a GET of /echo/<s> or of /user-agent that does not negotiate gzip is answered
\* 200 with Content-Type: text/plain, the reflected string as its body, and a
\* Content-Length that is the number of body bytes on the wire
Reflected(r) ==
    IF StartsWith(r.path, <<"/", "echo", "/">>)
    THEN Drop(r.path, 3)
    ELSE Get(r.headers, <<"User-Agent">>, <<>>)

IsReflecting(r) ==
    /\ r.method = GET
    /\ StartsWith(r.path, <<"/", "echo", "/">>) \/ r.path = <<"/", "user-agent">>
    /\ ~Contains(Get(r.headers, AcceptEncoding, <<>>), <<"gzip">>)

C12_ReflectedLength ==
    \A c \in Conns : \A k \in 1..Len(sent[c]) :
        LET r == handled[c][k].request
            w == OnWire(sent[c][k].bytes)
        IN IsReflecting(r) =>
             /\ w.status = <<"2", "0", "0">>
             /\ Get(w.headers, ContentType, <<>>) = <<"text", "/", "plain">>
             /\ w.body = str_encode(Reflected(r))
             /\ HasKey(w.headers, ContentLength)
             /\ IntOf(Get(w.headers, ContentLength, <<>>)) = Len(w.body)

\* C15: the step in which a POST finishes its write leaves in the file exactly the
\* body of that POST, whatever other POSTs of the same file have opened or written
\* it: the content is the body of the POST whose write finished last
C15_LastWriterWins ==
    [][\A c \in Conns :
         (pc[c] = "post_write" /\ pc'[c] = "send") =>
             files'[FileNamed(request[c])] = str_encode(request[c].body)]_vars

\* C13: the step in which an exception ends one unit changes nothing of any other
\* connection nor of the files, and while a unit lies ended by an exception the
\* listener can accept the next connection and every other unit that has a request
\* framed can take its next step
Crashes(c) == pc[c] # "crashed" /\ pc'[c] = "crashed"

NextToAccept(c) == pc[c] = "off" /\ \A d \in Conns : d < c => pc[d] # "off"

Untouched(d) ==
    /\ pc'[d] = pc[d] /\ inbuf'[d] = inbuf[d] /\ peerClosed'[d] = peerClosed[d]
    /\ raw'[d] = raw[d] /\ request'[d] = request[d] /\ handler'[d] = handler[d]
    /\ size'[d] = size[d] /\ response'[d] = response[d]
    /\ handled'[d] = handled[d] /\ sent'[d] = sent[d]

Proceeds(d) ==
    /\ NextToAccept(d) => ENABLED Accept(d)
    /\ pc[d] \in {"post_write", "read_read", "send"}
         => ENABLED (PostWrite(d) \/ ReadRead(d) \/ Send(d))

C13_ErrorIsolation ==
    /\ [][\A c \in Conns :
            Crashes(c) => (files' = files /\ \A d \in Conns \ {c} : Untouched(d))]_vars
    /\ [](\A c \in Conns : pc[c] = "crashed" => \A d \in Conns \ {c} : Proceeds(d))

\* the unit of connection 1 ended in a POST whose open failed, and the connection
\* accepted after it has been answered
C13_Witness ==
    /\ pc[1] = "crashed" /\ Len(handled[1]) = 1 /\ sent[1] = <<>>
    /\ handled[1][1].handler = "post_file"
    /\ Len(sent[2]) >= 1

\* C14: on each connection the k-th response is the response to the k-th framed
\* request (its status is that of the request's handler and it carries Connection:
\* close exactly when the request asked for it), no unit reads the socket while a
\* framed request is unanswered, and every framed request has been answered when
\* the unit is between requests or has ended
StatusOf(h) ==
    IF h = "None" THEN {<<"4", "0", "4">>}
    ELSE IF h = "post_file" THEN {<<"2", "0", "1">>}
    ELSE IF h = "read_file" THEN {<<"2", "0", "0">>, <<"4", "0", "4">>}
    ELSE {<<"2", "0", "0">>}

InOrder(c) ==
    /\ Len(sent[c]) <= Len(handled[c])
    /\ \A k \in 1..Len(sent[c]) :
          /\ OnWire(sent[c][k].bytes).status \in StatusOf(handled[c][k].handler)
          /\ AskedClose(handled[c][k].request)
               <=> Get(OnWire(sent[c][k].bytes).headers, Connection, <<>>) = <<"close">>

ReadsWhenAnswered ==
    \A c \in Conns : Reads(c) => Len(sent[c]) = Len(handled[c])

C14_OneResponseEach ==
    /\ [][ReadsWhenAnswered]_vars
    /\ [](\A c \in Conns :
            /\ InOrder(c)
            /\ pc[c] \in {"headers", "body", "done", "crashed"} => Len(sent[c]) = Len(handled[c]))

\* C14 as amended: as C14, but a framed request whose handler raises is not answered
\* and is the last of its unit: a unit ended by an exception has answered every
\* framed request but, at most, the last
C14_OneResponseUnlessRaised ==
    /\ [][ReadsWhenAnswered]_vars
    /\ [](\A c \in Conns :
            /\ InOrder(c)
            /\ pc[c] \in {"headers", "body", "done"} => Len(sent[c]) = Len(handled[c])
            /\ pc[c] = "crashed" => Len(handled[c]) \in {Len(sent[c]), Len(sent[c]) + 1})

\* a unit has answered a POST and then a GET of the file, in that order
C14_Witness ==
    \E c \in Conns :
        /\ Len(sent[c]) = 2 /\ Len(handled[c]) = 2
        /\ handled[c][1].handler = "post_file"
        /\ handled[c][2].handler = "read_file"
        /\ pc[c] = "headers"

\* C16: the listener can accept the next connection whatever the units of the
\* connections accepted before it are doing, and the step that accepts a connection
\* starts that connection's unit, at the header loop, and touches no other unit
Accepts1(c) == pc[c] = "off" /\ pc'[c] # "off"

C16_AcceptNeverWaits ==
    /\ [](\A c \in Conns : NextToAccept(c) => ENABLED Accept(c))
    /\ [][\A c \in Conns :
            Accepts1(c) => /\ pc'[c] = "headers"
                           /\ \A d \in Conns \ {c} : Untouched(d)
                           /\ files' = files]_vars

\* the client of connection 1 has sent nothing and has not closed, its unit waits in
\* the header loop, and connection 2 has been accepted and answered
C16_Witness ==
    /\ pc[1] = "headers" /\ raw[1] = <<>> /\ inbuf[1] = <<>> /\ written[1] = <<>>
    /\ ~peerClosed[1] /\ eofReads[1] = 0
    /\ Len(sent[2]) >= 1

\* C17: every response that handle_request returns has a status that STASTUS knows,
\* 200, 201 or 404, and every status line sent is 200 OK, 201 Created or
\* 404 Not Found
StatusLines ==
    { <<"HTTP/1.1", " ", "2", "0", "0", " ", "OK">>,
      <<"HTTP/1.1", " ", "2", "0", "1", " ", "Created">>,
      <<"HTTP/1.1", " ", "4", "0", "4", " ", "Not", " ", "Found">> }

C17_KnownStatus ==
    \A c \in Conns :
        /\ pc[c] = "send" => response[c].status \in {200, 201, 404}
        /\ \A k \in 1..Len(sent[c]) :
              Head(Split(sent[c][k].bytes, <<"\r", "\n">>)) \in StatusLines

\* a 201 Created has been sent
C17_Witness ==
    \E c \in Conns :
        /\ Len(sent[c]) = 1
        /\ Head(Split(sent[c][1].bytes, <<"\r", "\n">>))
             = <<"HTTP/1.1", " ", "2", "0", "1", " ", "Created">>

\* C18: a response is encoded once and serialized once: the step that sends it calls
\* sendall once, the body on the wire is the handler's body as bytes, compressed
\* once when Content-Encoding is set and never twice, and Content-Encoding is set
\* once
Count(h, k) == Cardinality({i \in 1..Len(h) : h[i][1] = k})

WireHeaderNames(bytes) ==
    LET lines == Tail(Split(Split1(bytes, <<"\r", "\n", "\r", "\n">>)[1], <<"\r", "\n">>))
    IN [i \in 1..Len(lines) |-> <<Split1(lines[i], <<":">>)[1]>>]

C18_SerializedOnce ==
    /\ [][\A c \in Conns : Len(sent'[c]) \in {Len(sent[c]), Len(sent[c]) + 1}]_vars
    /\ [](\A c \in Conns :
            /\ pc[c] = "send" => Count(response[c].headers, ContentEncoding) <= 1
            /\ \A k \in 1..Len(sent[c]) :
                  LET w == OnWire(sent[c][k].bytes)
                      plain == str_encode(sent[c][k].body)
                  IN /\ Count(WireHeaderNames(sent[c][k].bytes), ContentEncoding) <= 1
                     /\ w.body = IF HasKey(w.headers, ContentEncoding)
                                 THEN compress(plain) ELSE plain
                     /\ w.body # compress(compress(plain)))

\* a response with Content-Encoding: gzip and Connection: close has been sent: the
\* close branch, with the body compressed
C18_Witness ==
    \E c \in Conns :
        /\ Len(sent[c]) = 1 /\ pc[c] = "done"
        /\ Get(OnWire(sent[c][1].bytes).headers, ContentEncoding, <<>>) = <<"gzip">>
        /\ sent[c][1].body # <<>>

\* C19: a request of which fewer body bytes have arrived than its Content-Length
\* declares has no handler invoked and no response prepared, also after the peer
\* closed mid-body; every request handed to handle_request carries at least the
\* bytes it declared, and so does every body that post_file writes
BytesMissing(r) ==
    /\ HasKey(r.headers, ContentLength)
    /\ Len(str_encode(r.body)) < IntOf(Get(r.headers, ContentLength, <<>>))

C19_NoDispatchOfIncomplete ==
    \A c \in Conns :
        /\ (pc[c] = "body" /\ BytesMissing(request[c])) =>
              /\ handler[c] = "None" /\ response[c] = NoResponse
              /\ Len(sent[c]) = Len(handled[c])
        /\ \A k \in 1..Len(handled[c]) : ~BytesMissing(handled[c][k].request)
        /\ pc[c] = "post_write" => ~BytesMissing(request[c])

\* the client sent the head of a POST and one of its two body bytes and closed; the
\* unit has read all of it and the end of file, and has dispatched nothing
C19_Witness ==
    \E c \in Conns :
        /\ pc[c] = "body" /\ BytesMissing(request[c]) /\ Len(request[c].body) = 1
        /\ peerClosed[c] /\ inbuf[c] = <<>> /\ eofReads[c] = 1
        /\ handled[c] = <<>> /\ sent[c] = <<>>

\* C20: the bytes of a response are decided by its request and by what read_file got
\* from the file system: two equal requests, for which the file system gave the
\* same, are answered with the same bytes, on the same or on different connections
\* and whatever was served before; and a response carries Connection: close or
\* Content-Encoding only on account of its own request
Answers == {x \in Conns \X (1..(2 * MaxClientSteps)) : x[2] <= Len(sent[x[1]])}

C20_NoLeak ==
    /\ \A x \in Answers : \A y \in Answers :
          (/\ handled[x[1]][x[2]].request = handled[y[1]][y[2]].request
           /\ sent[x[1]][x[2]].read = sent[y[1]][y[2]].read)
             => sent[x[1]][x[2]].bytes = sent[y[1]][y[2]].bytes
    /\ \A x \in Answers :
          LET r == handled[x[1]][x[2]].request
              w == OnWire(sent[x[1]][x[2]].bytes)
          IN /\ HasKey(w.headers, Connection) => Get(r.headers, Connection, <<>>) = <<"close">>
             /\ HasKey(w.headers, ContentEncoding)
                  => Contains(Get(r.headers, AcceptEncoding, <<>>), <<"gzip">>)

\* a 404 with Content-Encoding: gzip was sent, and after it the same unit answered
\* a request that asked for no encoding
C20_Witness ==
    \E c \in Conns :
        /\ Len(sent[c]) = 2
        /\ HasKey(OnWire(sent[c][1].bytes).headers, ContentEncoding)
        /\ ~HasKey(handled[c][2].request.headers, AcceptEncoding)

====
